---- MODULE Spec2Model ----
(***************************************************************************)
(* MatterTune finetuning harness: FinetuneModuleBase (finetune/base.py)    *)
(* and its two backbone adapters, EqV2BackboneModule and JMPBackboneModule.*)
(*                                                                         *)
(* A module is configured (hparams, checkpoint), constructed (__init__:    *)
(* create_model, create_metrics, the requires_grad check) and then driven  *)
(* by the trainer through training/validation/test/predict steps.          *)
(*                                                                         *)
(* Tensors are abstracted to small integers.  Exceptions are abstracted to *)
(* their class names; what third-party code raises is partitioned by the   *)
(* except clauses of base.py: "_SkipBatchError", any other subclass of     *)
(* Exception ("Exception"), and a BaseException that is no Exception       *)
(* ("BaseException", e.g. KeyboardInterrupt).                              *)
(*                                                                         *)
(* Spec drives a module through its steps.  CallSpec drives the other      *)
(* operations of the interface (importing a backbone's module,             *)
(* atoms_to_data, a direct forward call, the tensor helpers) and records   *)
(* the last such call in the variable call.                                *)
(***************************************************************************)
EXTENDS Integers, Sequences, FiniteSets, TLC

VARIABLES hparams, checkpoint, pc, raised, backbone, output_heads, metrics, last,
          call

vars == <<hparams, checkpoint, pc, raised, backbone, output_heads, metrics, last, call>>

(***************************************************************************)
(* Bounds                                                                  *)
(***************************************************************************)
\* longest property list of a configuration
MaxProps == 2

\* most structures in a batch handed to the tensor helpers
MaxBatch == 2

\* in how many ways a checkpoint differs from one that loads
MaxDeviations == 1

\* most batches a run feeds to the metrics
MaxUpdates == 1

(***************************************************************************)
(* Configuration records                                                   *)
(***************************************************************************)
Backbones == {"eqV2", "jmp"}

\* Property configurations (finetune/properties.py: energy, forces, stresses,
\* graph).  A reduction is "n/a" and conservative is FALSE for the kinds that
\* have no such field.
Prop(type, name, conservative, reduction, loss, coef) ==
    [type |-> type, name |-> name, conservative |-> conservative,
     reduction |-> reduction, loss |-> loss, loss_coefficient |-> coef]

PropertyConfigs ==
    { Prop("energy",   "energy",   FALSE, "n/a",  "mae", 1),
      Prop("forces",   "forces",   FALSE, "n/a",  "mae", 2),
      Prop("forces",   "forces",   TRUE,  "n/a",  "mae", 2),
      Prop("stresses", "stresses", FALSE, "n/a",  "mse", 1),
      Prop("stresses", "stresses", TRUE,  "n/a",  "mse", 1),
      Prop("graph",    "gap",      FALSE, "sum",  "mae", 0),
      Prop("graph",    "gap",      FALSE, "mean", "mse", 3),
      Prop("graph",    "gap",      FALSE, "max",  "mae", 1) }

PropertyLists == UNION { [1..n -> PropertyConfigs] : n \in 0..MaxProps }

\* A parameter tensor: who owns it, how many elements it has (2 stands for
\* "more than one"), whether all its elements are zero, and requires_grad.
Param(owner, numel, zero, rg) ==
    [owner |-> owner, numel |-> numel, zero |-> zero, requires_grad |-> rg]

\* Parameters of the pretrained backbone, as stored in the checkpoint.
BackboneParamChoices ==
    { << Param("backbone", 2, FALSE, TRUE) >>,
      << Param("backbone", 1, TRUE,  TRUE) >>,
      << Param("backbone", 2, FALSE, FALSE) >>,
      << Param("backbone", 2, FALSE, FALSE), Param("backbone", 1, FALSE, TRUE) >> }

\* backbone.hparams.activation of a JMP checkpoint
Activations == {"scaled_silu", "gelu"}

SupportedActivations ==
    {"relu", "silu", "swish", "scaled_silu", "scaled_swish", "tanh", "sigmoid", "identity"}

\* The value of a singleton set: Only({ F(x) : x \in {e} }) evaluates e once
\* and names its value x in F
Only(S) == CHOOSE x \in S : TRUE

(***************************************************************************)
(* The pretrained EqV2 backbone: _get_backbone                             *)
(***************************************************************************)
\* config of a fairchem checkpoint.  trainer: the trainer's registered name
\* or "absent"; layout: the model's settings are a dict under "model", or
\* under "model_attributes" with the name under "model", or there is only a
\* name; model and backbone: the registered names the trainer builds from;
\* otf_graph: the stored setting; dataset_src: config["dataset"] has "src";
\* loadable: load_checkpoint does not raise NotImplementedError;
\* has_model: the trainer holds a model in _unwrapped_model
LoadableConfig ==
    [trainer |-> "absent", layout |-> "model", model |-> "hydra",
     backbone |-> "equiformer_v2_backbone", otf_graph |-> FALSE,
     dataset_src |-> TRUE, loadable |-> TRUE, has_model |-> TRUE]

Deviations(c) ==
    Cardinality({ f \in DOMAIN c : c[f] # LoadableConfig[f] })

CheckpointConfigs ==
    { c \in [trainer : {"absent", "ocp", "equiformerv2_forces"},
              layout : {"model", "model_attributes", "name_only"},
              model : {"hydra", "equiformer_v2"},
              backbone : {"equiformer_v2_backbone", "gemnet_oc_backbone"},
              otf_graph : BOOLEAN, dataset_src : BOOLEAN,
              loadable : BOOLEAN, has_model : BOOLEAN] :
        Deviations(c) <= MaxDeviations }

\* registry.get_trainer_class(name): the class registered under a name
get_trainer_class(name) ==
    IF name = "ocp" THEN "OCPTrainer" ELSE "EquiformerV2ForcesTrainer"

\* The model the trainer builds from config["model"]: its class and the
\* class of its backbone
ModelOf(model_config) ==
    [cls |-> IF model_config.name = "hydra" THEN "HydraModel" ELSE "EquiformerV2",
     backbone |-> IF model_config.backbone = "equiformer_v2_backbone"
                  THEN "EquiformerV2Backbone" ELSE "GemNetOCBackbone"]

NoModule == [cls |-> "none", model |-> "none", trainer |-> "none"]

\* What _get_backbone did: the exception raised, the module returned with the
\* model and the trainer it came from, the trainer name and model config
\* handed to the trainer ("n/a" before the trainer is built), and the
\* warnings logged
GotBackbone(exc, ret, trainer_name, model_config, warnings) ==
    [raised |-> exc, ret |-> ret, trainer_name |-> trainer_name,
     model_config |-> model_config, warnings |-> warnings]

NoModelConfig == [name |-> "n/a", backbone |-> "n/a", otf_graph |-> FALSE]

\* _get_backbone that returns model.backbone whatever its type
_get_backbone_any_backbone(config) ==
    LET trainer_name == IF config.trainer = "absent" THEN "ocp" ELSE config.trainer
        model_config == [name |-> config.model, backbone |-> config.backbone,
                         otf_graph |-> TRUE]
        trainer == get_trainer_class(trainer_name)
        warnings == IF config.loadable THEN 0 ELSE 1
        model == ModelOf(model_config)
    IN  IF config.layout = "name_only"
        THEN GotBackbone("TypeError", NoModule, "n/a", NoModelConfig, 0)
        ELSE IF ~config.dataset_src
        THEN GotBackbone("KeyError", NoModule, "n/a", NoModelConfig, 0)
        ELSE IF trainer # "OCPTrainer" \/ ~config.has_model \/ model.cls # "HydraModel"
        THEN GotBackbone("AssertionError", NoModule, trainer_name, model_config,
                         warnings)
        ELSE GotBackbone("none",
                         [cls |-> model.backbone, model |-> model.cls,
                          trainer |-> trainer],
                         trainer_name, model_config, warnings)

\* _get_backbone(hparams) on the config stored in the checkpoint
_get_backbone(config) ==
    LET \* config["trainer"] = config.get("trainer", "ocp")
        trainer_name == IF config.trainer = "absent" THEN "ocp" ELSE config.trainer
        \* config["model"] after the model_attributes rewrite, with
        \* config["model"]["otf_graph"] = True
        model_config == [name |-> config.model, backbone |-> config.backbone,
                         otf_graph |-> TRUE]
        trainer == get_trainer_class(trainer_name)
        \* NotImplementedError of load_checkpoint is logged, not raised
        warnings == IF config.loadable THEN 0 ELSE 1
        model == ModelOf(model_config)
    IN  IF config.layout = "name_only"
        THEN \* a str does not support item assignment
             GotBackbone("TypeError", NoModule, "n/a", NoModelConfig, 0)
        ELSE IF ~config.dataset_src
        THEN \* del config["dataset"]["src"]
             GotBackbone("KeyError", NoModule, "n/a", NoModelConfig, 0)
        ELSE IF trainer # "OCPTrainer" \/ ~config.has_model \/ model.cls # "HydraModel"
                  \/ model.backbone # "EquiformerV2Backbone"
        THEN GotBackbone("AssertionError", NoModule, trainer_name, model_config,
                         warnings)
        ELSE GotBackbone("none",
                         [cls |-> model.backbone, model |-> model.cls,
                          trainer |-> trainer],
                         trainer_name, model_config, warnings)

(***************************************************************************)
(* Output heads                                                            *)
(***************************************************************************)
NoHead == [cls |-> "none", reduce |-> "n/a"]

MkHead(cls, reduce) == [cls |-> cls, reduce |-> reduce]

\* _create_output_head with its assert statements removed
EqV2_create_output_head_no_assert(prop) ==
    CASE prop.type = "energy" ->
           [raised |-> "none", head |-> MkHead("EquiformerV2EnergyHead", "sum")]
      [] prop.type = "forces" ->
           [raised |-> "none", head |-> MkHead("EquiformerV2ForceHead", "n/a")]
      [] prop.type = "stresses" ->
           [raised |-> "none", head |-> MkHead("Rank2SymmetricTensorHead", "n/a")]
      [] OTHER ->
           [raised |-> "none", head |-> MkHead("EquiformerV2EnergyHead", prop.reduction)]

\* EqV2BackboneModule._create_output_head: [raised, head]
EqV2_create_output_head(prop) ==
    CASE prop.type = "energy" ->
           [raised |-> "none", head |-> MkHead("EquiformerV2EnergyHead", "sum")]
      [] prop.type = "forces" ->
           IF prop.conservative
           THEN [raised |-> "AssertionError", head |-> NoHead]
           ELSE [raised |-> "none", head |-> MkHead("EquiformerV2ForceHead", "n/a")]
      [] prop.type = "stresses" ->
           IF prop.conservative
           THEN [raised |-> "AssertionError", head |-> NoHead]
           ELSE [raised |-> "none", head |-> MkHead("Rank2SymmetricTensorHead", "n/a")]
      [] prop.type = "graph" ->
           IF prop.reduction \notin {"sum", "mean"}
           THEN [raised |-> "AssertionError", head |-> NoHead]
           ELSE [raised |-> "none",
                 head |-> MkHead("EquiformerV2EnergyHead", prop.reduction)]
      [] OTHER -> [raised |-> "ValueError", head |-> NoHead]

\* jmp/model.py _get_activation_cls: "none" or the exception raised
_get_activation_cls(activation) ==
    IF activation \in SupportedActivations THEN "none" ELSE "ValueError"

\* _create_output_head with a case that builds the graph-scalar head of
\* prediction_heads/graph_scalar.py for a graph property
JMP_create_output_head_graph_scalar(prop, activation) ==
    IF _get_activation_cls(activation) # "none"
    THEN [raised |-> _get_activation_cls(activation), head |-> NoHead]
    ELSE CASE prop.type = "energy" ->
                [raised |-> "none", head |-> MkHead("EnergyTarget", "n/a")]
           [] prop.type = "forces" /\ ~prop.conservative ->
                [raised |-> "none", head |-> MkHead("ForceTarget", "n/a")]
           [] prop.type = "stresses" /\ ~prop.conservative ->
                [raised |-> "none", head |-> MkHead("StressTarget", "n/a")]
           [] prop.type = "graph" ->
                [raised |-> "none", head |-> MkHead("GraphScalarTarget", prop.reduction)]
           [] OTHER -> [raised |-> "ValueError", head |-> NoHead]

\* JMPBackboneModule._create_output_head: [raised, head]
JMP_create_output_head(prop, activation) ==
    IF _get_activation_cls(activation) # "none"
    THEN [raised |-> _get_activation_cls(activation), head |-> NoHead]
    ELSE CASE prop.type = "energy" ->
                [raised |-> "none", head |-> MkHead("EnergyTarget", "n/a")]
           [] prop.type = "forces" /\ ~prop.conservative ->
                [raised |-> "none", head |-> MkHead("ForceTarget", "n/a")]
           [] prop.type = "stresses" /\ ~prop.conservative ->
                [raised |-> "none", head |-> MkHead("StressTarget", "n/a")]
           [] OTHER -> [raised |-> "ValueError", head |-> NoHead]

_create_output_head(name, prop, ckpt) ==
    IF name = "eqV2" THEN EqV2_create_output_head(prop)
    ELSE JMP_create_output_head(prop, ckpt.activation)

\* nn.ModuleDict as an insertion-ordered sequence of [key, head]
Keys(heads) == { heads[i].key : i \in 1..Len(heads) }

\* output_heads[key] = head: a key already present keeps its position
ModuleDictSet(heads, key, head) ==
    IF key \in Keys(heads)
    THEN [i \in 1..Len(heads) |->
            IF heads[i].key = key THEN [key |-> key, head |-> head] ELSE heads[i]]
    ELSE Append(heads, [key |-> key, head |-> head])

\* The key a property's head is stored under: self.output_heads[prop.name]
head_key_by_type(prop) == prop.type

head_key(prop) == prop.name

\* The loop of create_model over hparams.properties, from property i on:
\* [raised, heads, at] where at is the index of the property that raised.
RECURSIVE CreateHeads(_, _, _, _)
CreateHeads(h, ckpt, i, heads) ==
    IF i > Len(h.properties)
    THEN [raised |-> "none", heads |-> heads, at |-> 0]
    ELSE LET prop == h.properties[i]
         IN  Only({ IF r.raised # "none"
                    THEN [raised |-> r.raised, heads |-> hs, at |-> i]
                    ELSE CreateHeads(h, ckpt, i + 1,
                                     ModuleDictSet(hs, head_key(prop), r.head)) :
                    r \in {_create_output_head(h.name, prop, ckpt)}, hs \in {heads} })

\* create_model of either backbone: load the backbone, then the heads.
\* at is -1 when loading the backbone raised.
create_model(h, ckpt) ==
    IF h.name = "eqV2" /\ _get_backbone(ckpt.config).raised # "none"
    THEN [raised |-> _get_backbone(ckpt.config).raised, heads |-> << >>, at |-> -1]
    ELSE CreateHeads(h, ckpt, 1, << >>)

(***************************************************************************)
(* Parameters                                                              *)
(***************************************************************************)
\* Parameters of a freshly created head (torch default: trainable weights)
HeadParams(entry) == << Param(entry.key, 2, FALSE, TRUE) >>

RECURSIVE AllHeadParams(_)
AllHeadParams(heads) ==
    IF heads = << >> THEN << >>
    ELSE HeadParams(Head(heads)) \o AllHeadParams(Tail(heads))

\* nn.Module.parameters(): the backbone's, then each head's in ModuleDict order
parameters(bb, heads) == bb \o AllHeadParams(heads)

(***************************************************************************)
(* Construction: FinetuneModuleBase.__init__                               *)
(***************************************************************************)
\* any(p for p in self.parameters() if p.requires_grad): the generator yields
\* the trainable parameters themselves, so any() takes the truth value of
\* each tensor: bool() of a tensor with more than one element raises
\* RuntimeError, a one-element tensor is true iff its element is nonzero.
RECURSIVE any_requires_grad(_)
any_requires_grad(ps) ==
    IF ps = << >> THEN "False"
    ELSE LET p == Head(ps)
         IN  IF ~p.requires_grad THEN any_requires_grad(Tail(ps))
             ELSE IF p.numel > 1 THEN "RuntimeError"
             ELSE IF p.zero THEN any_requires_grad(Tail(ps))
             ELSE "True"

\* The metrics of a module that has none yet
NoMetrics == << >>

\* create_metrics: one FinetuneMetrics per split, kept as the number of
\* batches it has been updated with
create_metrics == [split \in {"train", "val", "test"} |-> 0]

\* __init__: create_model, create_metrics, then the requires_grad check.
\* [raised, at, backbone, heads, metrics]
FinetuneModuleBase_init(h, ckpt) ==
    Only({ IF cm.raised # "none"
           THEN [raised |-> cm.raised, at |-> cm.at, backbone |-> ckpt.params,
                 heads |-> cm.heads, metrics |-> NoMetrics]
           ELSE Only({ [raised |-> CASE a = "True" -> "none"
                                     [] a = "False" -> "ValueError"
                                     [] OTHER -> a,
                        at |-> 0, backbone |-> ckpt.params,
                        heads |-> cm.heads, metrics |-> create_metrics] :
                       a \in {any_requires_grad(parameters(ckpt.params, cm.heads))} }) :
           cm \in {create_model(h, ckpt)} })

(***************************************************************************)
(* Batches                                                                 *)
(***************************************************************************)
\* What a call into third-party code (graph computer, backbone) does on a
\* batch: returns ("none") or raises an exception of one of three classes.
Faults == {"none", "Exception", "_SkipBatchError", "BaseException"}

\* isinstance(e, Exception)
IsException(e) == e \notin {"none", "BaseException"}

\* The data of a batch: which of two structures it holds (they differ in their
\* numbers) and whether atoms_to_data stored the labels
BatchData ==
    { [v |-> 1, has_labels |-> TRUE], [v |-> 2, has_labels |-> FALSE] }

\* A collated batch: its data, what the graph computer and the backbone do on
\* it, and whether it is the object returned by gpu_batch_transform.
\* No except clause tells a BaseException of the backbone from an Exception of
\* the backbone, so the backbone raises the two other classes only.
FwdFaults == {"none", "Exception", "_SkipBatchError"}

\* The backbone is not reached on a batch whose graph computation raises, and
\* EqV2 computes no graph in gpu_batch_transform.
Batches(name) ==
    { [v |-> d.v, has_labels |-> d.has_labels, graph |-> g, fwd |-> f,
       transformed |-> FALSE] :
        d \in BatchData,
        g \in IF name = "jmp" THEN Faults ELSE {"none"},
        f \in FwdFaults } \ { b \in [v : {1, 2}, has_labels : BOOLEAN, graph : Faults,
                                      fwd : FwdFaults, transformed : {FALSE}] :
                                  b.graph # "none" /\ b.fwd # "none" }

\* Tensors are flat sequences of integers.
Stress3x3(v) == << v, 0, 0, 0, v, 0, 0, 0, v >>

\* The value stored in a batch under an attribute
BatchValue(v, attr) ==
    CASE attr = "energy" -> << v >>
      [] attr = "forces" -> << v, 0, 1 >>
      [] attr \in {"stress", "stresses"} -> Stress3x3(v)
      [] OTHER -> << 2 * v >>

PropsOfType(h, type) == { i \in 1..Len(h.properties) : h.properties[i].type = type }

Names(h) == { h.properties[i].name : i \in 1..Len(h.properties) }

\* atoms_to_data: the label attributes a batch carries.  EqV2 reads energy,
\* forces and stress by fixed names and the other properties by their own
\* names; JMP stores every property under its own name.
EqV2_label_attrs(h) ==
       (IF PropsOfType(h, "energy") # {} THEN {"energy"} ELSE {})
    \cup (IF PropsOfType(h, "forces") # {} THEN {"forces"} ELSE {})
    \cup (IF PropsOfType(h, "stresses") # {} THEN {"stress"} ELSE {})
    \cup { h.properties[i].name : i \in PropsOfType(h, "graph") }

JMP_label_attrs(h) == Names(h)

atoms_to_data_attrs(h, has_labels) ==
    IF ~has_labels THEN {}
    ELSE IF h.name = "eqV2" THEN EqV2_label_attrs(h) ELSE JMP_label_attrs(h)

(***************************************************************************)
(* Backbone adapters: transform, forward pass, labels                      *)
(***************************************************************************)
\* Python dicts are functions; d[k] = v overwrites
EmptyDict == [k \in {} |-> << >>]

DictSet(d, k, v) == (k :> v) @@ d

\* gpu_batch_transform: EqV2 returns the batch, JMP runs the graph computer
EqV2_gpu_batch_transform(batch) == [raised |-> "none", batch |-> batch]

JMP_gpu_batch_transform(batch) ==
    IF batch.graph # "none"
    THEN [raised |-> batch.graph, batch |-> batch]
    ELSE [raised |-> "none", batch |-> [batch EXCEPT !.transformed = TRUE]]

gpu_batch_transform(h, batch) ==
    IF h.name = "eqV2" THEN EqV2_gpu_batch_transform(batch)
    ELSE JMP_gpu_batch_transform(batch)

\* What a fairchem head returns for a batch: a dict keyed by output name
EqV2_head_output(head, batch) ==
    CASE head.cls = "EquiformerV2EnergyHead" ->
           ("energy" :> << batch.v + (IF head.reduce = "sum" THEN 1 ELSE 0) >>)
      [] head.cls = "EquiformerV2ForceHead" ->
           ("forces" :> << batch.v, 1, 1 >>)
      [] OTHER ->
           ("stress_isotropic" :> << batch.v >>)
             @@ ("stress_anisotropic" :> << 0, 1, 0, 0, batch.v >>)

\* What a jmp head returns for a batch: the tensor itself
JMP_head_output(head, batch) ==
    CASE head.cls = "EnergyTarget" -> << batch.v + 1 >>
      [] head.cls = "ForceTarget" -> << batch.v, 1, 1 >>
      [] OTHER -> << batch.v, 0, 1, 0, batch.v, 0, 1, 0, 2 >>

\* A tensor with its shape; v holds the elements row by row
Tensor(shape, v) == [shape |-> shape, v |-> v]

\* stress_head.block.change_mat in integers: row a gives element a of the
\* flattened 3x3 tensor from the 9 irrep components (scalar, 3 vector,
\* 5 irrep-2): trace part, antisymmetric part, symmetric traceless part.
change_mat ==
    << << 1,  0,  0,  0,  1,  0,  0,  0,  0 >>,
       << 0,  0,  0,  1,  0,  1,  0,  0,  0 >>,
       << 0,  0, -1,  0,  0,  0,  1,  0,  0 >>,
       << 0,  0,  0, -1,  0,  1,  0,  0,  0 >>,
       << 1,  0,  0,  0,  0,  0,  0,  1,  0 >>,
       << 0,  1,  0,  0,  0,  0,  0,  0,  1 >>,
       << 0,  0,  1,  0,  0,  0,  1,  0,  0 >>,
       << 0, -1,  0,  0,  0,  0,  0,  0,  1 >>,
       << 1,  0,  0,  0, -1,  0,  0, -1,  0 >> >>

\* sum of x[1..n] times y[1..n]
RECURSIVE Dot(_, _, _)
Dot(x, y, n) == IF n = 0 THEN 0 ELSE Dot(x, y, n - 1) + x[n] * y[n]

\* torch.einsum("ab, cb->ca", m, x)
einsum_ab_cb_ca(m, x) ==
    [c \in 1..Len(x) |-> [a \in 1..Len(m) |-> Dot(m[a], x[c], Len(x[c]))]]

\* The elements of the rows of a matrix, row by row
RECURSIVE Flat(_)
Flat(rows) == IF rows = << >> THEN << >> ELSE Head(rows) \o Flat(Tail(rows))

\* _combine_scalar_irrep2 with the vector part put after the irrep-2 part
_combine_scalar_irrep2_vector_last(scalar, irrep2) ==
    LET vector == [c \in 1..Len(scalar) |-> << 0, 0, 0 >>]
        flatten_irreps == [c \in 1..Len(scalar) |-> scalar[c] \o irrep2[c] \o vector[c]]
        stress == einsum_ab_cb_ca(change_mat, flatten_irreps)
    IN  Tensor(<< Len(stress), 3, 3 >>, Flat(stress))

\* _combine_scalar_irrep2: scalar has one row of one element per structure,
\* irrep2 one row of five
_combine_scalar_irrep2(scalar, irrep2) ==
    LET vector == [c \in 1..Len(scalar) |-> << 0, 0, 0 >>]
        flatten_irreps == [c \in 1..Len(scalar) |-> scalar[c] \o vector[c] \o irrep2[c]]
        stress == einsum_ab_cb_ca(change_mat, flatten_irreps)
    IN  Tensor(<< Len(stress), 3, 3 >>, Flat(stress))

\* next((p for p in properties if p.name == name), None): index or 0
FirstPropNamed(h, name) ==
    IF name \in Names(h)
    THEN CHOOSE i \in 1..Len(h.properties) :
            /\ h.properties[i].name = name
            /\ \A j \in 1..(i - 1) : h.properties[j].name # name
    ELSE 0

\* One iteration of EqV2 model_forward's loop: [raised, pred]
EqV2_head_pred(h, entry, batch) ==
    LET t(i) == h.properties[i].type
        need(i) == CASE t(i) = "energy" -> {"energy"}
                     [] t(i) = "forces" -> {"forces"}
                     [] t(i) = "stresses" -> {"stress_isotropic", "stress_anisotropic"}
                     [] OTHER -> {"energy"}
    IN  Only({ IF i = 0 THEN [raised |-> "AssertionError", pred |-> << >>]
               ELSE IF ~(need(i) \subseteq DOMAIN ho)
               THEN [raised |-> "KeyError", pred |-> << >>]
               ELSE [raised |-> "none",
                     pred |-> IF t(i) = "stresses"
                              THEN _combine_scalar_irrep2(
                                       << ho["stress_isotropic"] >>,
                                       << ho["stress_anisotropic"] >>).v
                              ELSE ho[Only(need(i))]] :
               i \in {FirstPropNamed(h, entry.key)},
               ho \in {EqV2_head_output(entry.head, batch)} })

\* The loop over output_heads.items(): [raised, predicted]
RECURSIVE ForwardHeads(_, _, _, _)
ForwardHeads(h, heads, batch, predicted) ==
    IF heads = << >> THEN [raised |-> "none", predicted |-> predicted]
    ELSE Only({ IF r.raised # "none"
                THEN [raised |-> r.raised, predicted |-> pd]
                ELSE ForwardHeads(h, Tail(heads), batch, DictSet(pd, e.key, r.pred)) :
                e \in {Head(heads)}, pd \in {predicted},
                r \in {IF h.name = "eqV2" THEN EqV2_head_pred(h, Head(heads), batch)
                       ELSE [raised |-> "none",
                             pred |-> JMP_head_output(Head(heads).head, batch)]} })

\* model_forward that stores the backbone's output whatever the flag says
model_forward_with_backbone_output(h, heads, batch, return_backbone_output) ==
    IF batch.fwd # "none" THEN [raised |-> batch.fwd, ret |-> EmptyDict]
    ELSE Only({ IF r.raised # "none" THEN [raised |-> r.raised, ret |-> EmptyDict]
                ELSE [raised |-> "none",
                      ret |-> ("backbone_output" :> ("emb" :> << batch.v >>))
                                @@ ("predicted_properties" :> r.predicted)] :
                r \in {ForwardHeads(h, heads, batch, EmptyDict)} })

\* model_forward of either backbone: [raised, ret]; ret is the ModelPrediction
model_forward(h, heads, batch, return_backbone_output) ==
    IF batch.fwd # "none" THEN [raised |-> batch.fwd, ret |-> EmptyDict]
    ELSE Only({ IF r.raised # "none" THEN [raised |-> r.raised, ret |-> EmptyDict]
                ELSE [raised |-> "none",
                      ret |-> IF return_backbone_output
                              THEN ("backbone_output" :> ("emb" :> << batch.v >>))
                                     @@ ("predicted_properties" :> r.predicted)
                              ELSE "predicted_properties" :> r.predicted] :
                r \in {ForwardHeads(h, heads, batch, EmptyDict)} })

\* The attribute batch_to_labels reads for a property
EqV2_batch_prop_name(prop) ==
    CASE prop.type = "energy" -> "energy"
      [] prop.type = "forces" -> "forces"
      [] prop.type = "stresses" -> "stress"
      [] OTHER -> prop.name

JMP_batch_prop_name(prop) == prop.name

\* The key a property's label is stored under: labels[prop.name]
label_key_by_attr(prop, attr) == attr

label_key(prop, attr) == prop.name

\* The loop of batch_to_labels from property i on: [raised, labels]
RECURSIVE LabelsFrom(_, _, _, _)
LabelsFrom(h, batch, i, labels) ==
    IF i > Len(h.properties) THEN [raised |-> "none", labels |-> labels]
    ELSE LET prop == h.properties[i]
             attr == IF h.name = "eqV2" THEN EqV2_batch_prop_name(prop)
                     ELSE JMP_batch_prop_name(prop)
         IN  Only({ IF attr \notin atoms_to_data_attrs(h, batch.has_labels)
                    THEN [raised |-> IF h.name = "eqV2" THEN "KeyError"
                                     ELSE "AttributeError",
                          labels |-> lb]
                    ELSE LabelsFrom(h, batch, i + 1,
                                    DictSet(lb, label_key(prop, attr),
                                            BatchValue(batch.v, attr))) :
                    lb \in {labels} })

batch_to_labels(h, batch) == LabelsFrom(h, batch, 1, EmptyDict)

(***************************************************************************)
(* FinetuneModuleBase: forward, loss, steps                                *)
(***************************************************************************)
\* The call of model_forward a forward call made, if any
NoModelForward == [called |-> FALSE]

ModelForward(batch, return_backbone_output) ==
    [called |-> TRUE, batch |-> batch,
     return_backbone_output |-> return_backbone_output]

\* The events of one forward call, its call of model_forward and its outcome
Fwd(exc, cause, ret, events, mf) ==
    [raised |-> exc, cause |-> cause, ret |-> ret, events |-> events, mf |-> mf]

\* forward that takes the try branch whatever the flag says
forward_always_ignore(h, heads, batch, return_backbone_output) ==
    Only({ IF IsException(t.raised)
           THEN Fwd("_SkipBatchError", t.raised, EmptyDict,
                    << "context_enter", "gpu_batch_transform",
                       "log_warning", "context_exit" >>, NoModelForward)
           ELSE IF t.raised # "none"
           THEN Fwd(t.raised, "none", EmptyDict,
                    << "context_enter", "gpu_batch_transform", "context_exit" >>,
                    NoModelForward)
           ELSE Only({ Fwd(mf.raised, "none", mf.ret,
                           << "context_enter", "gpu_batch_transform",
                              "model_forward", "context_exit" >>,
                           ModelForward(t.batch, return_backbone_output)) :
                       mf \in {model_forward(h, heads, t.batch,
                                             return_backbone_output)} }) :
           t \in {gpu_batch_transform(h, batch)} })

\* forward that also turns an exception of model_forward into a skip
forward_guarding_model_forward(h, heads, batch, return_backbone_output) ==
    Only({ IF h.ignore_gpu_batch_transform_error /\ IsException(t.raised)
           THEN Fwd("_SkipBatchError", t.raised, EmptyDict,
                    << "context_enter", "gpu_batch_transform",
                       "log_warning", "context_exit" >>, NoModelForward)
           ELSE IF t.raised # "none"
           THEN Fwd(t.raised, "none", EmptyDict,
                    << "context_enter", "gpu_batch_transform", "context_exit" >>,
                    NoModelForward)
           ELSE Only({ IF h.ignore_gpu_batch_transform_error /\ IsException(mf.raised)
                       THEN Fwd("_SkipBatchError", mf.raised, EmptyDict,
                                << "context_enter", "gpu_batch_transform",
                                   "model_forward", "log_warning", "context_exit" >>,
                                ModelForward(t.batch, return_backbone_output))
                       ELSE Fwd(mf.raised, "none", mf.ret,
                                << "context_enter", "gpu_batch_transform",
                                   "model_forward", "context_exit" >>,
                                ModelForward(t.batch, return_backbone_output)) :
                       mf \in {model_forward(h, heads, t.batch,
                                             return_backbone_output)} }) :
           t \in {gpu_batch_transform(h, batch)} })

\* forward that runs the model on the batch it was given, not on the one
\* gpu_batch_transform returned
forward_model_on_given_batch(h, heads, batch, return_backbone_output) ==
    Only({ IF h.ignore_gpu_batch_transform_error /\ IsException(t.raised)
           THEN Fwd("_SkipBatchError", t.raised, EmptyDict,
                    << "context_enter", "gpu_batch_transform",
                       "log_warning", "context_exit" >>, NoModelForward)
           ELSE IF t.raised # "none"
           THEN Fwd(t.raised, "none", EmptyDict,
                    << "context_enter", "gpu_batch_transform", "context_exit" >>,
                    NoModelForward)
           ELSE Only({ Fwd(mf.raised, "none", mf.ret,
                           << "context_enter", "gpu_batch_transform",
                              "model_forward", "context_exit" >>,
                           ModelForward(batch, return_backbone_output)) :
                       mf \in {model_forward(h, heads, batch,
                                             return_backbone_output)} }) :
           t \in {gpu_batch_transform(h, batch)} })

\* forward: inside model_forward_context (a bare yield in both backbones),
\* transform the batch, then run the model.  [raised, cause, ret, events, mf]
forward(h, heads, batch, return_backbone_output) ==
    LET run(b) ==
            Only({ Fwd(mf.raised, "none", mf.ret,
                       << "context_enter", "gpu_batch_transform",
                          "model_forward", "context_exit" >>,
                       ModelForward(b, return_backbone_output)) :
                   mf \in {model_forward(h, heads, b, return_backbone_output)} })
        propagate(e) ==
            Fwd(e, "none", EmptyDict,
                << "context_enter", "gpu_batch_transform", "context_exit" >>,
                NoModelForward)
    IN  Only({ IF h.ignore_gpu_batch_transform_error
               THEN IF IsException(t.raised)
                    THEN Fwd("_SkipBatchError", t.raised, EmptyDict,
                             << "context_enter", "gpu_batch_transform",
                                "log_warning", "context_exit" >>, NoModelForward)
                    ELSE IF t.raised # "none" THEN propagate(t.raised)
                    ELSE run(t.batch)
               ELSE IF t.raised # "none" THEN propagate(t.raised)
                    ELSE run(t.batch) :
               t \in {gpu_batch_transform(h, batch)} })

Abs(x) == IF x < 0 THEN -x ELSE x

RECURSIVE SumSeq(_)
SumSeq(q) == IF q = << >> THEN 0 ELSE Head(q) + SumSeq(Tail(q))

\* finetune/loss.py compute_loss, in integers: MAE as the summed absolute
\* error, MSE as the summed squared error
compute_loss(loss, prediction, label) ==
    LET n == IF Len(prediction) < Len(label) THEN Len(prediction) ELSE Len(label)
    IN  IF loss = "mae"
        THEN SumSeq([i \in 1..n |-> Abs(prediction[i] - label[i])])
        ELSE SumSeq([i \in 1..n |->
                        (prediction[i] - label[i]) * (prediction[i] - label[i])])

\* The loop of _compute_loss from property i on: [raised, losses, logged]
RECURSIVE LossesFrom(_, _, _, _, _, _, _)
LossesFrom(h, predictions, labels, log, log_prefix, i, acc) ==
    IF i > Len(h.properties) THEN acc
    ELSE LET prop == h.properties[i]
         IN  IF prop.name \notin DOMAIN predictions \/ prop.name \notin DOMAIN labels
             THEN [acc EXCEPT !.raised = "KeyError"]
             ELSE Only({ LossesFrom(h, predictions, labels, log, log_prefix, i + 1,
                           [raised |-> "none",
                            losses |-> Append(a.losses, loss),
                            logged |-> IF log
                                       THEN Append(a.logged,
                                              << log_prefix, prop.name, "loss", loss >>)
                                       ELSE a.logged]) :
                         a \in {acc},
                         loss \in {compute_loss(prop.loss, predictions[prop.name],
                                                labels[prop.name])
                                     * prop.loss_coefficient} })

\* _compute_loss that sums the per-property losses without loss_coefficient
_compute_loss_unweighted(h, predictions, labels, log, log_prefix) ==
    LET n == Len(h.properties)
        ok == \A i \in 1..n : /\ h.properties[i].name \in DOMAIN predictions
                              /\ h.properties[i].name \in DOMAIN labels
        ls == [i \in 1..n |-> compute_loss(h.properties[i].loss,
                                           predictions[h.properties[i].name],
                                           labels[h.properties[i].name])]
    IN  IF ok
        THEN [raised |-> "none", loss |-> SumSeq(ls), losses |-> ls, logged |-> << >>]
        ELSE [raised |-> "KeyError", loss |-> 0, losses |-> << >>, logged |-> << >>]

\* _compute_loss: [raised, loss, losses, logged]
_compute_loss(h, predictions, labels, log, log_prefix) ==
    Only({ Only({ [raised |-> r.raised, loss |-> loss, losses |-> r.losses,
                   logged |-> IF log /\ r.raised = "none"
                              THEN Append(r.logged,
                                          << log_prefix, "total", "loss", loss >>)
                              ELSE r.logged] :
                  loss \in {SumSeq(r.losses)} }) :
           r \in {LossesFrom(h, predictions, labels, log, log_prefix, 1,
                             [raised |-> "none", losses |-> << >>, logged |-> << >>])} })

\* A zero loss over the trainable parameters only
_zero_loss_trainable_only(ps) ==
    LET idx == { i \in 1..Len(ps) : ps[i].requires_grad }
        RECURSIVE Terms(_)
        Terms(i) == IF i > Len(ps) THEN << >>
                    ELSE IF i \in idx
                    THEN << [index |-> i, param |-> ps[i], coef |-> 0] >> \o Terms(i + 1)
                    ELSE Terms(i + 1)
    IN  Terms(1)

\* _zero_loss: sum(p.sum() * 0.0 for p in self.parameters()), kept as its
\* terms: one per parameter, each with coefficient 0
_zero_loss(ps) ==
    [i \in 1..Len(ps) |-> [index |-> i, param |-> ps[i], coef |-> 0]]

\* What _common_step or a step hands back.  kind: "raise" (the exception is in
\* raised), "zero_loss" (terms), "tuple" (predictions, loss), and for the
\* steps "loss", "None" or "prediction".  The other fields record what the
\* call did: what forward and batch_to_labels raised ("n/a": not called), the
\* labels, the per-property losses, the calls made in order, what was logged,
\* the split whose metrics object was updated, whether the batch was skipped,
\* the exception the skip was raised from and the batch object handed to
\* batch_to_labels.
NoBatch ==
    [v |-> 0, has_labels |-> FALSE, graph |-> "none", fwd |-> "none",
     transformed |-> FALSE]

Blank ==
    [kind |-> "raise", raised |-> "none", predictions |-> EmptyDict,
     labels |-> EmptyDict, loss |-> 0, losses |-> << >>, terms |-> << >>,
     events |-> << >>, logged |-> << >>, metrics_updated |-> "none",
     cause |-> "none", skipped |-> FALSE, fw_raised |-> "none",
     labels_raised |-> "n/a", labels_from |-> NoBatch]

\* The batch of the forward pass: the one gpu_batch_transform returned
labels_batch_transformed(fw, batch) == fw.mf.batch

\* The batch labels are read from: self.batch_to_labels(batch), the argument
\* of _common_step
labels_batch(fw, batch) == batch

\* The rest of _common_step after a forward pass that returned
AfterForward(h, fw, batch, name, metric, log) ==
    LET ev1 == Append(fw.events, "batch_to_labels")
        ev2 == Append(ev1, "_compute_loss")
        useMetrics == log /\ metric # "none"
        base == [Blank EXCEPT !.predictions = fw.ret,
                              !.labels_from = labels_batch(fw, batch)]
        loss(lb) ==
            Only({ IF cl.raised # "none"
                   THEN [base EXCEPT !.raised = cl.raised, !.labels = lb.labels,
                                     !.labels_raised = "none", !.events = ev2,
                                     !.logged = cl.logged, !.losses = cl.losses]
                   ELSE [base EXCEPT
                           !.kind = "tuple", !.labels = lb.labels,
                           !.labels_raised = "none",
                           !.loss = cl.loss, !.losses = cl.losses,
                           !.events = IF useMetrics THEN Append(ev2, "metrics") ELSE ev2,
                           !.logged = IF useMetrics
                                      THEN Append(cl.logged,
                                                  << name, "metrics", "dict", 0 >>)
                                      ELSE cl.logged,
                           !.metrics_updated = IF useMetrics THEN metric ELSE "none"] :
                   cl \in {_compute_loss(h, fw.ret["predicted_properties"], lb.labels,
                                         log, name)} })
    IN  Only({ IF lb.raised # "none"
               THEN [base EXCEPT !.raised = lb.raised, !.labels_raised = lb.raised,
                                 !.events = ev1]
               ELSE loss(lb) :
               lb \in {batch_to_labels(h, labels_batch(fw, batch))} })

\* _common_step that skips a batch only when the configuration says to
\* ignore errors of gpu_batch_transform
_common_step_skip_if_ignoring(h, heads, ps, batch, name, metric, log) ==
    Only({ IF fw.raised = "_SkipBatchError" /\ h.ignore_gpu_batch_transform_error
           THEN [Blank EXCEPT !.kind = "zero_loss", !.terms = _zero_loss(ps),
                              !.events = fw.events, !.cause = fw.cause,
                              !.skipped = TRUE, !.fw_raised = fw.raised]
           ELSE IF fw.raised # "none"
           THEN [Blank EXCEPT !.raised = fw.raised, !.events = fw.events,
                              !.fw_raised = fw.raised]
           ELSE AfterForward(h, fw, batch, name, metric, log) :
           fw \in {forward(h, heads, batch, FALSE)} })

\* _common_step that feeds a skipped batch to the metrics
_common_step_counting_skipped(h, heads, ps, batch, name, metric, log) ==
    Only({ IF fw.raised = "_SkipBatchError"
           THEN [Blank EXCEPT !.kind = "zero_loss", !.terms = _zero_loss(ps),
                              !.events = fw.events, !.cause = fw.cause,
                              !.skipped = TRUE, !.fw_raised = fw.raised,
                              !.metrics_updated = IF log THEN metric ELSE "none"]
           ELSE IF fw.raised # "none"
           THEN [Blank EXCEPT !.raised = fw.raised, !.events = fw.events,
                              !.fw_raised = fw.raised]
           ELSE AfterForward(h, fw, batch, name, metric, log) :
           fw \in {forward(h, heads, batch, FALSE)} })

\* _common_step(batch, name, metrics, log); metric is the split whose metrics
\* object is passed, or "none"
_common_step(h, heads, ps, batch, name, metric, log) ==
    Only({ IF fw.raised = "_SkipBatchError"
           THEN [Blank EXCEPT !.kind = "zero_loss", !.terms = _zero_loss(ps),
                              !.events = fw.events, !.cause = fw.cause,
                              !.skipped = TRUE, !.fw_raised = fw.raised]
           ELSE IF fw.raised # "none"
           THEN [Blank EXCEPT !.raised = fw.raised, !.events = fw.events,
                              !.fw_raised = fw.raised]
           ELSE AfterForward(h, fw, batch, name, metric, log) :
           fw \in {forward(h, heads, batch, FALSE)} })

\* a, b = value: a tuple of two unpacks, a 0-d tensor raises TypeError
UnpacksToPair(r) == r.kind = "tuple"

\* training_step: _, loss = self._common_step(...); return loss
training_step(h, heads, ps, batch) ==
    Only({ IF r.kind = "raise" THEN r
           ELSE IF ~UnpacksToPair(r)
           THEN [r EXCEPT !.kind = "raise", !.raised = "TypeError"]
           ELSE [r EXCEPT !.kind = "loss"] :
           r \in {_common_step(h, heads, ps, batch, "train", "train", TRUE)} })

\* validation_step: _ = self._common_step(...)
validation_step(h, heads, ps, batch) ==
    Only({ IF r.kind = "raise" THEN r ELSE [r EXCEPT !.kind = "None"] :
           r \in {_common_step(h, heads, ps, batch, "val", "val", TRUE)} })

\* test_step: _ = self._common_step(...)
test_step(h, heads, ps, batch) ==
    Only({ IF r.kind = "raise" THEN r ELSE [r EXCEPT !.kind = "None"] :
           r \in {_common_step(h, heads, ps, batch, "test", "test", TRUE)} })

\* predict_step: prediction, _ = self._common_step(..., None, log=False)
predict_step(h, heads, ps, batch) ==
    Only({ IF r.kind = "raise" THEN r
           ELSE IF ~UnpacksToPair(r)
           THEN [r EXCEPT !.kind = "raise", !.raised = "TypeError"]
           ELSE [r EXCEPT !.kind = "prediction"] :
           r \in {_common_step(h, heads, ps, batch, "predict", "none", FALSE)} })

(***************************************************************************)
(* The interface: what FinetuneModuleBase declares, what the backbones     *)
(* define and import                                                       *)
(***************************************************************************)
\* A declared parameter (self left out) and whether it has a default value
Par(name, has_default) == [name |-> name, has_default |-> has_default]

\* The abstract methods of FinetuneModuleBase with their parameters
FinetuneModuleBase_abstract ==
    [create_model                   |-> << >>,
     model_forward_context          |-> << Par("data", FALSE) >>,
     model_forward                  |-> << Par("batch", FALSE),
                                           Par("return_backbone_output", TRUE) >>,
     pretrained_backbone_parameters |-> << >>,
     output_head_parameters         |-> << >>,
     cpu_data_transform             |-> << Par("data", FALSE) >>,
     collate_fn                     |-> << Par("data_list", FALSE) >>,
     gpu_batch_transform            |-> << Par("batch", FALSE) >>,
     batch_to_labels                |-> << Par("batch", FALSE) >>,
     atoms_to_data                  |-> << Par("atoms", FALSE) >>]

\* The overrides of EqV2BackboneModule
EqV2BackboneModule_methods ==
    [create_model                   |-> << >>,
     model_forward_context          |-> << Par("data", FALSE) >>,
     model_forward                  |-> << Par("batch", FALSE),
                                           Par("return_backbone_output", TRUE) >>,
     pretrained_backbone_parameters |-> << >>,
     output_head_parameters         |-> << >>,
     cpu_data_transform             |-> << Par("data", FALSE) >>,
     collate_fn                     |-> << Par("data_list", FALSE) >>,
     gpu_batch_transform            |-> << Par("batch", FALSE) >>,
     batch_to_labels                |-> << Par("batch", FALSE) >>,
     atoms_to_data                  |-> << Par("atoms", FALSE), Par("has_labels", FALSE) >>]

\* The overrides of JMPBackboneModule
JMPBackboneModule_methods ==
    [create_model                   |-> << >>,
     model_forward_context          |-> << Par("data", FALSE) >>,
     model_forward                  |-> << Par("batch", FALSE),
                                           Par("return_backbone_output", TRUE) >>,
     pretrained_backbone_parameters |-> << >>,
     output_head_parameters         |-> << >>,
     cpu_data_transform             |-> << Par("data", FALSE) >>,
     collate_fn                     |-> << Par("data_list", FALSE) >>,
     gpu_batch_transform            |-> << Par("batch", FALSE) >>,
     batch_to_labels                |-> << Par("batch", FALSE) >>,
     atoms_to_data                  |-> << Par("atoms", FALSE), Par("has_labels", FALSE) >>]

Methods(name) ==
    IF name = "eqV2" THEN EqV2BackboneModule_methods ELSE JMPBackboneModule_methods

\* Python's binding of n positional arguments to a method's parameters:
\* TypeError when there are too many or a parameter without default is left
BindArgs(params, n) ==
    IF n > Len(params) \/ (\E i \in (n + 1)..Len(params) : ~params[i].has_default)
    THEN "TypeError"
    ELSE "none"

\* The names finetune/base.py defines at its top level
finetune_base_names ==
    {"log", "FinetuneModuleBaseConfig", "TFinetuneModuleConfig", "_SkipBatchError",
     "ModelPrediction", "TData", "TBatch", "FinetuneModuleBase"}

\* from ...finetune.base import ... at the top of a backbone's model.py
EqV2_imports_from_base ==
    {"FinetuneModuleBase", "FinetuneModuleBaseConfig", "ModelOutput"}

JMP_imports_from_base ==
    {"FinetuneModuleBase", "FinetuneModuleBaseConfig", "ModelOutput"}

\* from module import names: ImportError for a name the module lacks
import_from(names, defined) ==
    IF names \subseteq defined THEN "none" ELSE "ImportError"

\* Importing the module of a backbone
import_backbone(name) ==
    import_from(IF name = "eqV2" THEN EqV2_imports_from_base
                ELSE JMP_imports_from_base,
                finetune_base_names)

(***************************************************************************)
(* atoms_to_data: from an ASE Atoms object to a data object                *)
(***************************************************************************)
\* Structures of one atom with the results of their calculator; stress is in
\* ASE's Voigt order xx, yy, zz, yz, xz, xy
AtomsSet ==
    { [energy |-> 1, forces |-> << 1, 0, 1 >>, stress |-> << 1, 2, 3, 4, 5, 6 >>,
       gap |-> 2],
      [energy |-> 2, forces |-> << 2, 0, 1 >>, stress |-> << 2, 0, 1, 3, 0, 4 >>,
       gap |-> 4] }

\* prop._from_ase_atoms_to_torch(atoms) of finetune/properties.py
_from_ase_atoms_to_torch(prop, atoms) ==
    CASE prop.type = "energy" -> Tensor(<< 1 >>, << atoms.energy >>)
      [] prop.type = "forces" -> Tensor(<< 1, 3 >>, atoms.forces)
      [] prop.type = "stresses" -> Tensor(<< 6 >>, atoms.stress)
      [] OTHER -> Tensor(<< 1 >>, << atoms.gap >>)

\* ase.constraints.voigt_6_to_full_3x3_stress on the elements
voigt_6_to_full_3x3_stress(s) ==
    << s[1], s[6], s[5],
       s[6], s[2], s[4],
       s[5], s[4], s[3] >>

\* The value JMP stores for a property, the stress left in Voigt form
JMP_label_value_voigt(prop, atoms) ==
    _from_ase_atoms_to_torch(prop, atoms)

\* The value JMP stores for a property: as extracted, but a stress converted
\* to the full tensor and reshaped to (1, 3, 3)
JMP_label_value(prop, atoms) ==
    Only({ IF prop.type = "stresses"
           THEN Tensor(<< 1, 3, 3 >>, voigt_6_to_full_3x3_stress(value.v))
           ELSE value :
           value \in {_from_ase_atoms_to_torch(prop, atoms)} })

\* The attributes every JMP data object has
JMP_data_dict(atoms) ==
    [k \in {"pos", "atomic_numbers", "natoms", "tags", "fixed", "pbc"} |->
        Tensor(<< 1 >>, << 0 >>)]
      @@ ("cell" :> Tensor(<< 1, 3, 3 >>, << 1, 0, 0, 0, 1, 0, 0, 0, 1 >>))

\* The loop of JMP atoms_to_data over hparams.properties, from property i on
RECURSIVE JMP_labels_from(_, _, _, _)
JMP_labels_from(h, atoms, i, data_dict) ==
    IF i > Len(h.properties) THEN data_dict
    ELSE JMP_labels_from(h, atoms, i + 1,
                         DictSet(data_dict, h.properties[i].name,
                                 JMP_label_value(h.properties[i], atoms)))

\* JMPBackboneModule.atoms_to_data
JMP_atoms_to_data(h, atoms, has_labels) ==
    IF has_labels THEN JMP_labels_from(h, atoms, 1, JMP_data_dict(atoms))
    ELSE JMP_data_dict(atoms)

\* EqV2BackboneModule.atoms_to_data: AtomsToGraphs reads energy, forces and
\* stress when a property of that kind is configured and the other properties
\* by name; cell and stress are reshaped to (1, 3, 3)
EqV2_atoms_to_data(h, atoms, has_labels) ==
    LET energy == has_labels /\ PropsOfType(h, "energy") # {}
        forces == has_labels /\ PropsOfType(h, "forces") # {}
        stress == has_labels /\ PropsOfType(h, "stresses") # {}
        data_keys == IF has_labels
                     THEN { h.properties[i].name : i \in PropsOfType(h, "graph") }
                     ELSE {}
    IN  [k \in {"pos", "atomic_numbers", "natoms", "tags", "fixed", "pbc"} |->
            Tensor(<< 1 >>, << 0 >>)]
          @@ ("cell" :> Tensor(<< 1, 3, 3 >>, << 1, 0, 0, 0, 1, 0, 0, 0, 1 >>))
          @@ [k \in (IF energy THEN {"energy"} ELSE {}) |->
                Tensor(<< 1 >>, << atoms.energy >>)]
          @@ [k \in (IF forces THEN {"forces"} ELSE {}) |->
                Tensor(<< 1, 3 >>, atoms.forces)]
          @@ [k \in (IF stress THEN {"stress"} ELSE {}) |->
                Tensor(<< 1, 3, 3 >>, voigt_6_to_full_3x3_stress(atoms.stress))]
          @@ [k \in data_keys |-> Tensor(<< 1 >>, << atoms.gap >>)]

\* module.atoms_to_data(atoms, *args): [raised, data]
atoms_to_data(h, atoms, args) ==
    IF BindArgs(Methods(h.name).atoms_to_data, 1 + Len(args)) # "none"
    THEN [raised |-> BindArgs(Methods(h.name).atoms_to_data, 1 + Len(args)),
          data |-> EmptyDict]
    ELSE [raised |-> "none",
          data |-> IF h.name = "eqV2" THEN EqV2_atoms_to_data(h, atoms, args[1])
                   ELSE JMP_atoms_to_data(h, atoms, args[1])]

(***************************************************************************)
(* Optimizer and learning-rate scheduler                                   *)
(***************************************************************************)
\* hparams.optimizer: the optimizer configurations the package exports
OptimizerConfigs == { [name |-> n] : n \in {"Adam", "AdamW", "SGD"} }

\* hparams.lr_scheduler: the scheduler configurations the package exports
LRSchedulerConfigs ==
    { [name |-> n] : n \in {"StepLR", "MultiStepLR", "ExponentialLR",
                            "ReduceOnPlateau", "CosineAnnealingLR"} }

NoOptimizer == [id |-> 0, cls |-> "none", params |-> << >>]

\* OptimizerConfig.construct_optimizer(parameters): a new torch optimizer of
\* the configured class over the parameters it is handed; torch rejects an
\* empty parameter list.  id tells one optimizer object from another.
construct_optimizer(config, ps, id) ==
    IF ps = << >>
    THEN [raised |-> "ValueError", optimizer |-> NoOptimizer]
    ELSE [raised |-> "none",
          optimizer |-> [id |-> id, cls |-> config.name, params |-> ps]]

\* LRSchedulerConfig.construct_lr_scheduler(optimizer): a scheduler of the
\* configured class that holds the optimizer it is handed
construct_lr_scheduler(config, optimizer) ==
    [cls |-> config.name, optimizer |-> optimizer.id]

\* No optimizer was built, nothing was returned
NoOptimizers(exc) == [raised |-> exc, ret |-> << >>, constructed |-> << >>]

\* The optimizer is built over the parameters of the output heads only
configure_optimizers_heads_only(h, bb, heads) ==
    Only({ IF o.raised # "none" THEN NoOptimizers(o.raised)
           ELSE [raised |-> "none",
                 ret |-> ("optimizer" :> o.optimizer)
                         @@ ("lr_scheduler" :>
                               construct_lr_scheduler(h.lr_scheduler, o.optimizer)),
                 constructed |-> << o.optimizer >>] :
           o \in {construct_optimizer(h.optimizer, AllHeadParams(heads), 1)} })

\* FinetuneModuleBase.configure_optimizers: [raised, ret, constructed] where
\* constructed lists the optimizers that were built
configure_optimizers(h, bb, heads) ==
    Only({ IF o.raised # "none" THEN NoOptimizers(o.raised)
           ELSE [raised |-> "none",
                 ret |-> ("optimizer" :> o.optimizer)
                         @@ ("lr_scheduler" :>
                               construct_lr_scheduler(h.lr_scheduler, o.optimizer)),
                 constructed |-> << o.optimizer >>] :
           o \in {construct_optimizer(h.optimizer, parameters(bb, heads), 1)} })

(***************************************************************************)
(* State machine                                                           *)
(***************************************************************************)
NoStep == [step |-> "none"]

NoRaise == [type |-> "none", at |-> 0]

NoCall == [op |-> "none"]

\* The checkpoints modules are constructed from: an EqV2 checkpoint that
\* loads, a JMP checkpoint with its activation
Checkpoints(name) ==
    { [params |-> ps, activation |-> a, config |-> LoadableConfig] :
        ps \in BackboneParamChoices,
        a \in IF name = "jmp" THEN Activations ELSE {"n/a"} }

Init ==
    /\ hparams \in { [name |-> n, properties |-> pl,
                      ignore_gpu_batch_transform_error |-> ig] :
                        n \in Backbones, pl \in PropertyLists, ig \in BOOLEAN }
    /\ checkpoint \in Checkpoints(hparams.name)
    /\ pc = "new"
    /\ raised = NoRaise
    /\ backbone = << >>
    /\ output_heads = << >>
    /\ metrics = NoMetrics
    /\ last = NoStep
    /\ call = NoCall

\* model_cls()(hparams): the constructor either yields a module or raises
Construct ==
    /\ pc = "new"
    /\ \E r \in {FinetuneModuleBase_init(hparams, checkpoint)} :
           /\ pc' = IF r.raised = "none" THEN "ready" ELSE "failed"
           /\ raised' = [type |-> r.raised, at |-> r.at]
           /\ backbone' = r.backbone
           /\ output_heads' = r.heads
           /\ metrics' = r.metrics
    /\ UNCHANGED <<hparams, checkpoint, last, call>>

\* metrics(predictions, labels): the metrics object of a split takes in one
\* more batch
metrics_call(ms, split) == [ms EXCEPT ![split] = @ + 1]

\* How many batches the metrics objects have taken in
Updates(ms) == ms["train"] + ms["val"] + ms["test"]

\* The trainer calls a step of a constructed module on some batch
Step(name, batch, r) ==
    /\ pc = "ready"
    /\ r.metrics_updated # "none" => Updates(metrics) < MaxUpdates
    /\ last' = [step |-> name, batch |-> batch, out |-> r]
    /\ metrics' = IF r.metrics_updated # "none"
                  THEN metrics_call(metrics, r.metrics_updated)
                  ELSE metrics
    /\ UNCHANGED <<hparams, checkpoint, pc, raised, backbone, output_heads, call>>

Params == parameters(backbone, output_heads)

TrainingStep ==
    \E batch \in Batches(hparams.name) :
        \E r \in {training_step(hparams, output_heads, Params, batch)} :
            Step("train", batch, r)

ValidationStep ==
    \E batch \in Batches(hparams.name) :
        \E r \in {validation_step(hparams, output_heads, Params, batch)} :
            Step("val", batch, r)

TestStep ==
    \E batch \in Batches(hparams.name) :
        \E r \in {test_step(hparams, output_heads, Params, batch)} :
            Step("test", batch, r)

PredictStep ==
    \E batch \in Batches(hparams.name) :
        \E r \in {predict_step(hparams, output_heads, Params, batch)} :
            Step("predict", batch, r)

Next ==
    \/ Construct
    \/ TrainingStep
    \/ ValidationStep
    \/ TestStep
    \/ PredictStep

Spec == Init /\ [][Next]_vars

(***************************************************************************)
(* Calls on the interface                                                  *)
(***************************************************************************)
\* These calls leave the module as it was, so a behaviour records one of them
Called(c) ==
    /\ call = NoCall
    /\ call' = c
    /\ UNCHANGED <<hparams, checkpoint, pc, raised, backbone, output_heads, metrics,
                   last>>

\* import mattertune.backbones.<name>.model
ImportBackbone ==
    Called([op |-> "import", raised |-> import_backbone(hparams.name)])

\* A dataset calls module.atoms_to_data: as the base declares it (atoms only)
\* or with has_labels
AtomsToData ==
    /\ pc = "ready"
    /\ \E atoms \in AtomsSet, args \in {<< >>, << TRUE >>, << FALSE >>} :
          \E r \in {atoms_to_data(hparams, atoms, args)} :
              Called([op |-> "atoms_to_data", atoms |-> atoms, args |-> args,
                      raised |-> r.raised, ret |-> r.data])

\* Outputs of a stress head for a batch of up to MaxBatch structures
ScalarRows == { << 1 >>, << 2 >> }

Irrep2Rows == { << 0, 1, 0, 0, 1 >>, << 1, 2, 3, 4, 5 >> }

\* model_forward hands the outputs of a stress head to _combine_scalar_irrep2
CombineScalarIrrep2 ==
    /\ pc = "ready" /\ hparams.name = "eqV2"
    /\ \E k \in 1..Len(output_heads) :
          output_heads[k].head.cls = "Rank2SymmetricTensorHead"
    /\ \E bsz \in 1..MaxBatch :
          \E scalar \in [1..bsz -> ScalarRows], irrep2 \in [1..bsz -> Irrep2Rows] :
              Called([op |-> "_combine_scalar_irrep2", scalar |-> scalar,
                      irrep2 |-> irrep2,
                      ret |-> _combine_scalar_irrep2(scalar, irrep2)])

\* create_model loads the backbone from some checkpoint.  _get_backbone reads
\* the checkpoint path of hparams and nothing else, so the configurations
\* without properties stand for all of them.
GetBackbone ==
    /\ pc = "new" /\ hparams.name = "eqV2" /\ hparams.properties = << >>
    /\ \E config \in CheckpointConfigs :
          Called([op |-> "_get_backbone", config |-> config,
                  out |-> _get_backbone(config)])

\* module(batch), module(batch, True) or module(batch, False)
ForwardCall ==
    /\ pc = "ready"
    /\ \E batch \in Batches(hparams.name), args \in {<< >>, << TRUE >>, << FALSE >>} :
          \E out \in {forward(hparams, output_heads, batch,
                               IF args = << >> THEN FALSE ELSE args[1])} :
              Called([op |-> "forward", batch |-> batch, args |-> args, out |-> out])

\* The trainer calls configure_optimizers on a constructed module.
\* hparams.optimizer and hparams.lr_scheduler are read by this method and by
\* nothing else, so they are drawn where they are read.
ConfigureOptimizers ==
    /\ pc = "ready"
    /\ \E optimizer \in OptimizerConfigs, lr_scheduler \in LRSchedulerConfigs :
          \E h \in {[name |-> hparams.name, properties |-> hparams.properties,
                     optimizer |-> optimizer, lr_scheduler |-> lr_scheduler]} :
              \E out \in {configure_optimizers(h, backbone, output_heads)} :
                  Called([op |-> "configure_optimizers", optimizer |-> optimizer,
                          lr_scheduler |-> lr_scheduler, out |-> out])

CallNext ==
    \/ Construct
    \/ ImportBackbone
    \/ AtomsToData
    \/ CombineScalarIrrep2
    \/ GetBackbone
    \/ ForwardCall
    \/ ConfigureOptimizers

CallSpec == Init /\ [][CallNext]_vars

(***************************************************************************)
(* Properties                                                              *)
(***************************************************************************)
Stepped == last.step # "none"

Ignore == hparams.ignore_gpu_batch_transform_error

Returned == last.out.kind # "raise"

Properties == hparams.properties

\* C1: with ignore_gpu_batch_transform_error set, a training step on a batch
\* whose gpu_batch_transform raises an exception does not raise: it returns
\* the zero loss.
C1_TrainingStepReturnsZeroLoss ==
    (Stepped /\ last.step = "train" /\ Ignore /\ IsException(last.batch.graph))
        => (Returned /\ last.out.kind = "loss" /\ last.out.loss = 0)

\* C2: the zero loss of a skipped batch has exactly one term per parameter of
\* the module (the backbone's and every head's, trainable or frozen), each
\* with coefficient zero, and no other term.
C2_ZeroLossCoversEveryParameter ==
    (Stepped /\ last.out.skipped) =>
        LET terms == last.out.terms
            n == Len(Params)
        IN  /\ \A j \in 1..Len(terms) :
                 /\ terms[j].coef = 0
                 /\ terms[j].index \in 1..n
                 /\ terms[j].param = Params[terms[j].index]
            /\ \A i \in 1..n : Cardinality({ j \in 1..Len(terms) : terms[j].index = i }) = 1
            /\ \A i \in 1..Len(backbone) :
                 \E j \in 1..Len(terms) : terms[j].param = backbone[i]
            /\ \A k \in 1..Len(output_heads) :
                 \E j \in 1..Len(terms) : terms[j].param.owner = output_heads[k].key

\* C2 happens: a batch is skipped by a module that has a frozen parameter, a
\* trainable one and an output head
C2_Witness ==
    /\ Stepped /\ last.out.skipped
    /\ output_heads # << >>
    /\ \E i \in 1..Len(backbone) : ~backbone[i].requires_grad
    /\ \E i \in 1..Len(backbone) : backbone[i].requires_grad

\* C3: with ignore_gpu_batch_transform_error set, validation_step, test_step
\* and predict_step return normally on a batch whose gpu_batch_transform
\* raises an exception.
C3_OtherStepsReturn ==
    (Stepped /\ last.step \in {"val", "test", "predict"} /\ Ignore
       /\ IsException(last.batch.graph))
        => Returned

\* C4 as stated: with ignore_gpu_batch_transform_error unset, whatever
\* gpu_batch_transform raises leaves forward and the step unchanged; the batch
\* is not skipped and model_forward is not called.
C4_AnyTransformErrorPropagates ==
    (Stepped /\ ~Ignore /\ last.batch.graph # "none") =>
        /\ last.out.fw_raised = last.batch.graph
        /\ last.out.kind = "raise" /\ last.out.raised = last.batch.graph
        /\ ~last.out.skipped /\ last.out.terms = << >>
        /\ \A i \in 1..Len(last.out.events) : last.out.events[i] # "model_forward"

\* C4 amended: with ignore_gpu_batch_transform_error unset, an exception other
\* than _SkipBatchError raised by gpu_batch_transform leaves forward and the
\* step unchanged; the batch is not skipped, no warning is logged and
\* model_forward is not called.
C4_TransformErrorPropagates ==
    (Stepped /\ ~Ignore /\ last.batch.graph \notin {"none", "_SkipBatchError"}) =>
        /\ last.out.fw_raised = last.batch.graph
        /\ last.out.kind = "raise" /\ last.out.raised = last.batch.graph
        /\ ~last.out.skipped /\ last.out.terms = << >>
        /\ \A i \in 1..Len(last.out.events) :
             last.out.events[i] \notin {"model_forward", "log_warning"}

\* C4 happens: the flag is unset and the graph computer raises an Exception
C4_Witness ==
    /\ Stepped /\ ~Ignore /\ last.batch.graph = "Exception"
    /\ last.out.raised = "Exception"

\* The loss _compute_loss is to return: the sum over the property list, in
\* its order, of compute_loss times loss_coefficient
WeightedTerm(i, predictions, labels) ==
    compute_loss(Properties[i].loss, predictions[Properties[i].name],
                 labels[Properties[i].name]) * Properties[i].loss_coefficient

WeightedSum(predictions, labels) ==
    LET S[i \in 0..Len(Properties)] ==
            IF i = 0 THEN 0 ELSE S[i - 1] + WeightedTerm(i, predictions, labels)
    IN  S[Len(Properties)]

ModelCreated == pc # "new" /\ raised.at = 0

\* C6: after create_model, for either backbone, the keys of output_heads are
\* exactly the configured property names.
C6_HeadKeysArePropertyNames ==
    ModelCreated => Keys(output_heads) = Names(hparams)

\* C6 happens: two different properties share a name and so a head
C6_Witness ==
    /\ pc = "ready" /\ Len(Properties) = 2
    /\ Properties[1].name = Properties[2].name
    /\ Properties[1].reduction # Properties[2].reduction
    /\ Len(output_heads) = 1

SomeRequiresGrad ==
    \E i \in 1..Len(Params) : Params[i].requires_grad

\* C8: the constructor raises ValueError exactly when no parameter of the
\* module requires gradients, and succeeds when one does, whatever the
\* shapes and values of the parameters.
C8_ValueErrorIffNothingTrainable ==
    ModelCreated =>
        /\ (raised.type = "ValueError") <=> ~SomeRequiresGrad
        /\ SomeRequiresGrad => pc = "ready"

\* The properties EqV2 is to reject, and the head each backbone is to build
EqV2Rejects(prop) ==
    \/ prop.type \in {"forces", "stresses"} /\ prop.conservative
    \/ prop.type = "graph" /\ prop.reduction \notin {"sum", "mean"}

EqV2Expected(prop) ==
    CASE prop.type = "energy" -> [cls |-> "EquiformerV2EnergyHead", reduce |-> "sum"]
      [] prop.type = "forces" -> [cls |-> "EquiformerV2ForceHead", reduce |-> "n/a"]
      [] prop.type = "stresses" -> [cls |-> "Rank2SymmetricTensorHead", reduce |-> "n/a"]
      [] prop.type = "graph" -> [cls |-> "EquiformerV2EnergyHead",
                                 reduce |-> prop.reduction]

JMPExpected(prop) ==
    CASE prop.type = "energy" -> [cls |-> "EnergyTarget", reduce |-> "n/a"]
      [] prop.type = "forces" -> [cls |-> "ForceTarget", reduce |-> "n/a"]
      [] prop.type = "stresses" -> [cls |-> "StressTarget", reduce |-> "n/a"]

Expected(prop) ==
    IF hparams.name = "eqV2" THEN EqV2Expected(prop) ELSE JMPExpected(prop)

\* The last property of the first n that has this name
LastNamed(name, n) ==
    CHOOSE i \in 1..n : /\ Properties[i].name = name
                        /\ \A j \in (i + 1)..n : Properties[j].name # name

\* Every head is the one expected for the last of the first n properties
\* with its key, and only those properties have heads
HeadsAsExpected(n) ==
    /\ Keys(output_heads) = { Properties[i].name : i \in 1..n }
    /\ \A k \in 1..Len(output_heads) :
         output_heads[k].head = Expected(Properties[LastNamed(output_heads[k].key, n)])

\* C9: EqV2 builds an energy head with sum reduction for energy, a force head
\* for non-conservative forces, a rank-2 symmetric tensor head for
\* non-conservative stresses and an energy head with the property's reduction
\* for a graph property; conservative forces or stresses and a graph property
\* whose reduction is neither sum nor mean are rejected with an error, and no
\* head is created for them.
C9_EqV2HeadDispatch ==
    (hparams.name = "eqV2" /\ pc # "new") =>
        IF \E i \in 1..Len(Properties) : EqV2Rejects(Properties[i])
        THEN /\ pc = "failed" /\ raised.type = "AssertionError"
             /\ raised.at \in 1..Len(Properties)
             /\ EqV2Rejects(Properties[raised.at])
             /\ \A j \in 1..(raised.at - 1) : ~EqV2Rejects(Properties[j])
             /\ HeadsAsExpected(raised.at - 1)
        ELSE /\ raised.at = 0
             /\ HeadsAsExpected(Len(Properties))

\* C9 happens: an energy head is built, then a graph property with reduction
\* max is rejected
C9_Witness ==
    /\ hparams.name = "eqV2" /\ pc = "failed" /\ raised.at = 2
    /\ Properties[1].type = "energy"
    /\ Properties[2].type = "graph" /\ Properties[2].reduction = "max"
    /\ Len(output_heads) = 1

JMPAccepts(prop) ==
    \/ prop.type = "energy"
    \/ prop.type \in {"forces", "stresses"} /\ ~prop.conservative

\* C10: JMP builds a head for energy, for non-conservative forces and for
\* non-conservative stresses (given an activation it knows); every other
\* property raises ValueError, so the module is not constructed from a
\* property list that holds one.
C10_JMPHeadDispatch ==
    (hparams.name = "jmp" /\ pc # "new") =>
        /\ (\E i \in 1..Len(Properties) : ~JMPAccepts(Properties[i]))
              => /\ pc = "failed" /\ raised.type = "ValueError"
                 /\ raised.at \in 1..Len(Properties)
                 /\ \A j \in 1..(raised.at - 1) : JMPAccepts(Properties[j])
        /\ (/\ \A i \in 1..Len(Properties) : JMPAccepts(Properties[i])
            /\ checkpoint.activation \in SupportedActivations)
              => /\ raised.at = 0
                 /\ HeadsAsExpected(Len(Properties))
        /\ raised.at > 0
              => /\ raised.type = "ValueError"
                 /\ \/ ~JMPAccepts(Properties[raised.at])
                    \/ checkpoint.activation \notin SupportedActivations

\* C10 happens: an energy head is built, then a graph property is rejected
C10_Witness ==
    /\ hparams.name = "jmp" /\ pc = "failed" /\ raised.type = "ValueError"
    /\ raised.at = 2 /\ Properties[2].type = "graph"
    /\ checkpoint.activation \in SupportedActivations
    /\ Len(output_heads) = 1

\* C11 as stated: both backbones can be imported, every abstract method of
\* the base is overridden with the parameters the base declares, and
\* atoms_to_data called with an Atoms object only does not raise.
C11_OneInterface ==
    /\ call.op = "import" => call.raised = "none"
    /\ (call.op = "atoms_to_data" /\ call.args = << >>) => call.raised = "none"
    /\ \A m \in DOMAIN FinetuneModuleBase_abstract :
         Methods(hparams.name)[m] = FinetuneModuleBase_abstract[m]

\* The labels atoms_to_data is to store for JMP
FullStress(voigt) ==
    [r \in 1..3, c \in 1..3 |->
        CASE r = c -> voigt[r]
          [] {r, c} = {2, 3} -> voigt[4]
          [] {r, c} = {1, 3} -> voigt[5]
          [] {r, c} = {1, 2} -> voigt[6]]

\* C12: JMP atoms_to_data with has_labels true stores one label per configured
\* property under the property's name and adds no other attribute; a stress
\* label is the full symmetric 3x3 tensor of the Voigt components with shape
\* (1, 3, 3), every other label is the extracted value unchanged.
C12_JMPLabels ==
    (/\ call.op = "atoms_to_data" /\ hparams.name = "jmp"
     /\ call.raised = "none" /\ call.args = << TRUE >>) =>
        /\ DOMAIN call.ret = DOMAIN JMP_data_dict(call.atoms) \cup Names(hparams)
        /\ \A i \in 1..Len(Properties) :
             LET value == call.ret[Properties[i].name]
             IN  IF Properties[i].type = "stresses"
                 THEN /\ value.shape = << 1, 3, 3 >>
                      /\ Len(value.v) = 9
                      /\ \A r \in 1..3, c \in 1..3 :
                           value.v[3 * (r - 1) + c] = FullStress(call.atoms.stress)[r, c]
                 ELSE value = _from_ase_atoms_to_torch(Properties[i], call.atoms)

\* C12 happens: labels of an energy and a stresses property are stored
C12_Witness ==
    /\ call.op = "atoms_to_data" /\ hparams.name = "jmp"
    /\ call.raised = "none" /\ call.args = << TRUE >>
    /\ Len(Properties) = 2
    /\ Properties[1].type = "energy" /\ Properties[2].type = "stresses"
    /\ call.ret["stresses"].v # call.atoms.stress

\* The tensor change_mat makes of the irrep vector [s, 0, 0, 0, i1..i5]
StressOf(s, i) ==
    [a \in 1..9 |->
        change_mat[a][1] * s + change_mat[a][5] * i[1] + change_mat[a][6] * i[2]
          + change_mat[a][7] * i[3] + change_mat[a][8] * i[4] + change_mat[a][9] * i[5]]

\* C13: _combine_scalar_irrep2 returns a tensor of shape (batch size, 3, 3);
\* the tensor of each structure is change_mat applied to the scalar, three
\* zeros and the five irrep-2 components of that structure, so the vector
\* components contribute nothing and the tensor is symmetric.
C13_StressRecombination ==
    call.op = "_combine_scalar_irrep2" =>
        LET bsz == Len(call.scalar)
            el(c, r, k) == call.ret.v[9 * (c - 1) + 3 * (r - 1) + k]
        IN  /\ call.ret.shape = << bsz, 3, 3 >>
            /\ Len(call.ret.v) = 9 * bsz
            /\ \A c \in 1..bsz :
                 /\ \A a \in 1..9 :
                      call.ret.v[9 * (c - 1) + a]
                        = StressOf(call.scalar[c][1], call.irrep2[c])[a]
                 /\ \A r \in 1..3, k \in 1..3 : el(c, r, k) = el(c, k, r)

\* C13 happens: a batch of two structures with different stress outputs
C13_Witness ==
    /\ call.op = "_combine_scalar_irrep2"
    /\ Len(call.scalar) = 2
    /\ call.scalar[1] # call.scalar[2] /\ call.irrep2[1] # call.irrep2[2]
    /\ call.ret.v[2] # 0

\* C14: _get_backbone either raises and returns nothing, or returns an
\* EquiformerV2Backbone that is the backbone of a HydraModel held by an
\* OCPTrainer; whenever it builds the trainer, the model config has otf_graph
\* true, and the trainer name is "ocp" when the checkpoint names none.
C14_GetBackbone ==
    call.op = "_get_backbone" =>
        /\ call.out.raised # "none" => call.out.ret = NoModule
        /\ call.out.raised = "none" =>
              call.out.ret = [cls |-> "EquiformerV2Backbone", model |-> "HydraModel",
                              trainer |-> "OCPTrainer"]
        /\ call.out.trainer_name # "n/a" =>
              /\ call.out.model_config.otf_graph
              /\ call.config.trainer = "absent" => call.out.trainer_name = "ocp"
              /\ call.config.trainer # "absent" =>
                    call.out.trainer_name = call.config.trainer

\* C14 happens: a checkpoint that names no trainer and stores otf_graph false
\* yields the backbone
C14_Witness ==
    /\ call.op = "_get_backbone" /\ call.out.raised = "none"
    /\ call.config.trainer = "absent" /\ ~call.config.otf_graph
    /\ call.out.ret.cls = "EquiformerV2Backbone"

\* C14 happens on the error path too: a hydra model with another backbone
C14_WitnessRejected ==
    /\ call.op = "_get_backbone" /\ call.out.raised = "AssertionError"
    /\ call.config.backbone = "gemnet_oc_backbone"

\* C15: for either backbone, a forward call that returns hands back what
\* model_forward returned for the flag it was given: predicted_properties
\* always, backbone_output exactly when return_backbone_output was passed as
\* true (not by default); model_forward receives the flag unchanged.
C15_BackboneOutputIffAsked ==
    (call.op = "forward" /\ call.out.raised = "none") =>
        LET asked == call.args # << >> /\ call.args[1]
        IN  /\ "predicted_properties" \in DOMAIN call.out.ret
            /\ ("backbone_output" \in DOMAIN call.out.ret) <=> asked
            /\ DOMAIN call.out.ret \subseteq {"predicted_properties", "backbone_output"}
            /\ call.out.mf.called
            /\ call.out.mf.return_backbone_output = asked

\* C15 happens: forward is called without the flag on a module with a head
C15_Witness ==
    /\ call.op = "forward" /\ call.out.raised = "none"
    /\ call.args = << >>
    /\ output_heads # << >>
    /\ DOMAIN call.out.ret = {"predicted_properties"}

\* C15 happens with the flag set, for each backbone
C15_WitnessAsked ==
    /\ call.op = "forward" /\ call.out.raised = "none"
    /\ call.args = << TRUE >>
    /\ hparams.name = "jmp"
    /\ "backbone_output" \in DOMAIN call.out.ret

\* A _SkipBatchError is raised in the forward pass of the last step
SkipRaised ==
    Stepped /\ "_SkipBatchError" \in {last.batch.graph, last.batch.fwd}

\* C16: a _SkipBatchError raised by gpu_batch_transform or by model_forward
\* does not leave the step, whatever ignore_gpu_batch_transform_error says:
\* _common_step catches it and takes the skip path (the zero loss over all
\* parameters; no labels, no loss, no metrics).
C16_SkipBatchErrorAlwaysCaught ==
    SkipRaised =>
        /\ last.out.fw_raised = "_SkipBatchError"
        /\ last.out.skipped
        /\ last.out.raised # "_SkipBatchError"
        /\ last.out.terms = _zero_loss(Params)
        /\ last.out.labels_raised = "n/a"
        /\ last.out.losses = << >> /\ last.out.metrics_updated = "none"

\* C16 happens: the flag is unset and model_forward raises _SkipBatchError
C16_Witness ==
    /\ SkipRaised /\ ~Ignore /\ last.batch.fwd = "_SkipBatchError"
    /\ last.step = "val" /\ last.out.kind = "None"

C17_WitnessLabels ==
    /\ Stepped /\ Ignore /\ hparams.name = "jmp"
    /\ last.out.labels_raised = "AttributeError"
    /\ last.out.raised = "AttributeError"

\* How often an event occurs in a sequence of events
Count(events, e) == Cardinality({ i \in 1..Len(events) : events[i] = e })

\* Where an event first occurs (0: nowhere)
At(events, e) ==
    IF Count(events, e) = 0 THEN 0
    ELSE CHOOSE i \in 1..Len(events) :
            events[i] = e /\ \A j \in 1..(i - 1) : events[j] # e

\* C18: every forward call enters the context first, calls
\* gpu_batch_transform exactly once, calls model_forward exactly once and on
\* the batch the transform returned when the transform returned, not at all
\* when it raised, and leaves the context last, on every path.
C18_ForwardOrder ==
    call.op = "forward" =>
        LET ev == call.out.events
            t == gpu_batch_transform(hparams, call.batch)
        IN  /\ Count(ev, "context_enter") = 1 /\ ev[1] = "context_enter"
            /\ Count(ev, "gpu_batch_transform") = 1 /\ ev[2] = "gpu_batch_transform"
            /\ Count(ev, "context_exit") = 1 /\ ev[Len(ev)] = "context_exit"
            /\ IF t.raised # "none"
               THEN Count(ev, "model_forward") = 0 /\ ~call.out.mf.called
               ELSE /\ Count(ev, "model_forward") = 1
                    /\ At(ev, "gpu_batch_transform") < At(ev, "model_forward")
                    /\ call.out.mf.called /\ call.out.mf.batch = t.batch

\* C18 happens: JMP's graph computer returns a new batch and the model runs
\* on it
C18_Witness ==
    /\ call.op = "forward" /\ hparams.name = "jmp"
    /\ call.out.raised = "none"
    /\ call.out.mf.called /\ call.out.mf.batch # call.batch

\* C18 happens on the error path: the transform raises and the context is left
C18_WitnessError ==
    /\ call.op = "forward" /\ call.batch.graph = "BaseException"
    /\ call.out.raised = "BaseException"
    /\ call.out.events[Len(call.out.events)] = "context_exit"

\* What a skipped batch leaves behind, but for the warning: batch_to_labels
\* is not called, nothing is logged, no metrics object is updated
SkippedLeavesNothing ==
    /\ last.out.labels_raised = "n/a"
    /\ Count(last.out.events, "batch_to_labels") = 0
    /\ last.out.labels = EmptyDict
    /\ last.out.logged = << >> /\ last.out.losses = << >>
    /\ last.out.metrics_updated = "none"

\* C19 as stated: a skipped batch leaves no labels, no logged value and no
\* metrics update, and exactly one warning is logged for it.
C19_OneWarningPerSkippedBatch ==
    (Stepped /\ last.out.skipped) =>
        /\ SkippedLeavesNothing
        /\ Count(last.out.events, "log_warning") = 1

\* C19 amended: a skipped batch leaves no labels, no logged value and no
\* metrics update, and every step changes the metrics by exactly the batch it
\* did not skip; one warning is logged when the batch is skipped because
\* gpu_batch_transform raised an exception under
\* ignore_gpu_batch_transform_error, and none when the _SkipBatchError came
\* from model_forward or from gpu_batch_transform with the flag unset.
C19_SkippedBatchLeavesNoTrace ==
    /\ [](Stepped /\ last.out.skipped =>
            /\ SkippedLeavesNothing
            /\ Count(last.out.events, "log_warning")
                 = IF Ignore /\ IsException(last.batch.graph) THEN 1 ELSE 0)
    /\ [][Stepped' =>
            /\ last'.out.skipped => metrics' = metrics
            /\ last'.out.metrics_updated = "none" => metrics' = metrics
            /\ last'.out.metrics_updated # "none" =>
                  /\ ~last'.out.skipped /\ last'.out.kind # "raise"
                  /\ metrics' = [metrics EXCEPT ![last'.out.metrics_updated] = @ + 1]]_vars

\* C19 happens: a batch is skipped without a warning after another batch was
\* fed to the training metrics
C19_Witness ==
    /\ Stepped /\ last.out.skipped
    /\ Count(last.out.events, "log_warning") = 0
    /\ metrics["train"] = 1

\* C19 happens with the warning: the transform raised under the flag
C19_WitnessWarned ==
    /\ Stepped /\ last.out.skipped /\ last.step = "val"
    /\ Count(last.out.events, "log_warning") = 1
    /\ metrics["val"] = 1

\* C20: whenever a step reads labels, batch_to_labels is called after the
\* forward pass on the batch object the step was given, not on the object
\* gpu_batch_transform returned, and the labels are those of that batch.
C20_LabelsFromGivenBatch ==
    (Stepped /\ last.out.labels_raised # "n/a") =>
        /\ last.out.labels_from = last.batch
        /\ ~last.out.labels_from.transformed
        /\ At(last.out.events, "batch_to_labels")
             = At(last.out.events, "context_exit") + 1
        /\ last.out.labels_raised = "none" =>
              last.out.labels = batch_to_labels(hparams, last.batch).labels

\* C20 happens: JMP's graph computer returned another batch object and the
\* labels were read
C20_Witness ==
    /\ Stepped /\ last.out.labels_raised = "none"
    /\ hparams.name = "jmp" /\ Len(Properties) > 0
    /\ gpu_batch_transform(hparams, last.batch).raised = "none"
    /\ gpu_batch_transform(hparams, last.batch).batch # last.batch
    /\ DOMAIN last.out.labels # {}

\* C21: configure_optimizers builds one optimizer, over all parameters of the
\* module (the backbone's and the output heads' together) and of the
\* configured class, builds the scheduler of the configured class from that
\* same optimizer, and returns a mapping with exactly the keys 'optimizer'
\* and 'lr_scheduler' that holds the two.
C21_ConfigureOptimizers ==
    call.op = "configure_optimizers" =>
        /\ call.out.raised = "none"
        /\ Len(call.out.constructed) = 1
        /\ call.out.constructed[1].params = backbone \o AllHeadParams(output_heads)
        /\ call.out.constructed[1].cls = call.optimizer.name
        /\ DOMAIN call.out.ret = {"optimizer", "lr_scheduler"}
        /\ call.out.ret["optimizer"] = call.out.constructed[1]
        /\ call.out.ret["lr_scheduler"].optimizer = call.out.ret["optimizer"].id
        /\ call.out.ret["lr_scheduler"].cls = call.lr_scheduler.name

\* C21 happens: the optimizer of a module with a backbone and two output
\* heads, one parameter of which is frozen
C21_Witness ==
    /\ call.op = "configure_optimizers" /\ call.out.raised = "none"
    /\ backbone # << >> /\ Len(output_heads) = 2
    /\ \E i \in 1..Len(call.out.ret["optimizer"].params) :
          ~call.out.ret["optimizer"].params[i].requires_grad
    /\ \E i \in 1..Len(call.out.ret["optimizer"].params) :
          call.out.ret["optimizer"].params[i].requires_grad

====
